---- MODULE Spec2Model ----
(***************************************************************************)
(* Price-time priority matching engine (MatcherEngine / OrderBook) of the  *)
(* NestJS backend, driven by ProcessOrderService.process.                  *)
(*                                                                         *)
(* Decimal strings are sequences of one-character strings, so that parsing *)
(* (new Big(s)) and formatting (Big.toString) are computed, not assumed.   *)
(* A Big is [s, i, f]: sign, integer part and fractional part counted in   *)
(* units of 10^-FracDigits.  BookOrder objects live in the per-book object *)
(* store `objs` (index ts+1); heaps and idIndex hold references (the ts),  *)
(* which is how the JavaScript code shares one mutable object between the  *)
(* heap array and the Map.                                                 *)
(***************************************************************************)
EXTENDS Integers, Sequences, FiniteSets, TLC

\* ------------------------------------------------------------------ bounds
MaxCmds == 3
MaxDeepCmds == 4
MaxPairCmds == 4
FracDigits == 5
MaxNow == 1

\* ------------------------------------------------------- decimals (big.js)
DigitChars == <<"0", "1", "2", "3", "4", "5", "6", "7", "8", "9">>

Digits == {DigitChars[k] : k \in 1..10}

DigitVal(c) == (CHOOSE k \in 1..10 : DigitChars[k] = c) - 1

RECURSIVE Pow10(_)
Pow10(n) == IF n = 0 THEN 1 ELSE 10 * Pow10(n - 1)

FracUnit == Pow10(FracDigits)

RECURSIVE NatOf(_)
NatOf(ds) ==
  IF ds = << >> THEN 0
  ELSE 10 * NatOf(SubSeq(ds, 1, Len(ds) - 1)) + DigitVal(ds[Len(ds)])

RECURSIVE DigitsOf(_)
DigitsOf(n) ==
  IF n < 10 THEN <<DigitChars[n + 1]>>
  ELSE Append(DigitsOf(n \div 10), DigitChars[(n % 10) + 1])

AllDigits(ds) == \A k \in 1..Len(ds) : ds[k] \in Digits

\* position of the first "." of str, 0 when there is none
DotIndex(str) ==
  IF \E k \in 1..Len(str) : str[k] = "."
  THEN CHOOSE k \in 1..Len(str) : str[k] = "." /\ \A j \in 1..(k - 1) : str[j] # "."
  ELSE 0

\* position of the first "e" or "E" of str, 0 when there is none
ExpIndex(str) ==
  IF \E k \in 1..Len(str) : str[k] \in {"e", "E"}
  THEN CHOOSE k \in 1..Len(str) :
         str[k] \in {"e", "E"} /\ \A j \in 1..(k - 1) : str[j] \notin {"e", "E"}
  ELSE 0

\* str up to its exponent part, and the exponent part after the "e"
Mantissa(str) == IF ExpIndex(str) = 0 THEN str ELSE SubSeq(str, 1, ExpIndex(str) - 1)

ExpPart(str) == IF ExpIndex(str) = 0 THEN << >> ELSE SubSeq(str, ExpIndex(str) + 1, Len(str))

\* the digits of the exponent part, after its sign
ExpDigits(str) ==
  LET e == ExpPart(str)
  IN  IF Len(e) > 0 /\ e[1] \in {"+", "-"} THEN Tail(e) ELSE e

Unsigned(str) == IF Len(str) > 0 /\ str[1] = "-" THEN Tail(str) ELSE str

\* the digits of the mantissa before and after its "."
IntDigits(str) ==
  LET u == Unsigned(Mantissa(str)) d == DotIndex(u)
  IN  IF d = 0 THEN u ELSE SubSeq(u, 1, d - 1)

FracDigitsOf(str) ==
  LET u == Unsigned(Mantissa(str)) d == DotIndex(u)
  IN  IF d = 0 THEN << >> ELSE SubSeq(u, d + 1, Len(u))

\* big.js NUMERIC = /^-?(\d+(\.\d*)?|\.\d+)(e[+-]?\d+)?$/i
IsNumeric(str) ==
  LET ip == IntDigits(str) fp == FracDigitsOf(str)
  IN  /\ AllDigits(ip)
      /\ AllDigits(fp)
      /\ \/ Len(ip) > 0
         \/ Len(fp) > 0 /\ DotIndex(Unsigned(Mantissa(str))) = 1
      /\ ExpIndex(str) # 0 => (Len(ExpDigits(str)) > 0 /\ AllDigits(ExpDigits(str)))

Zero == [s |-> 1, i |-> 0, f |-> 0]

IsZero(x) == x.i = 0 /\ x.f = 0

\* the exponent of a numeric str, 0 when it has none
Exponent(str) ==
  IF ExpIndex(str) = 0 THEN 0
  ELSE IF ExpPart(str)[1] = "-" THEN -NatOf(ExpDigits(str)) ELSE NatOf(ExpDigits(str))

Zeros(n) == [k \in 1..n |-> "0"]

\* new Big(str) for a numeric str whose value has at most FracDigits fraction
\* digits: the digits of the mantissa with the point moved by the exponent
Big(str) ==
  LET all == IntDigits(str) \o FracDigitsOf(str)
      point == Len(IntDigits(str)) + Exponent(str)
      ip == IF point <= 0 THEN << >>
            ELSE IF point >= Len(all) THEN all \o Zeros(point - Len(all))
            ELSE SubSeq(all, 1, point)
      fp == IF point <= 0 THEN Zeros(-point) \o all
            ELSE IF point >= Len(all) THEN << >>
            ELSE SubSeq(all, point + 1, Len(all))
      mag == [i |-> NatOf(ip), f |-> NatOf(fp) * Pow10(FracDigits - Len(fp))]
  IN  [s |-> IF str[1] = "-" /\ (mag.i # 0 \/ mag.f # 0) THEN -1 ELSE 1,
       i |-> mag.i, f |-> mag.f]

MagCmp(x, y) ==
  IF x.i # y.i THEN (IF x.i < y.i THEN -1 ELSE 1)
  ELSE IF x.f # y.f THEN (IF x.f < y.f THEN -1 ELSE 1)
  ELSE 0

cmp(x, y) ==
  IF IsZero(x) /\ IsZero(y) THEN 0
  ELSE IF IsZero(x) THEN -(y.s)
  ELSE IF IsZero(y) THEN x.s
  ELSE IF x.s # y.s THEN x.s
  ELSE x.s * MagCmp(x, y)

eq(x, y) == cmp(x, y) = 0

gt(x, y) == cmp(x, y) > 0

gte(x, y) == cmp(x, y) > -1

lt(x, y) == cmp(x, y) < 0

lte(x, y) == cmp(x, y) < 1

MagAdd(x, y) ==
  IF x.f + y.f >= FracUnit
  THEN [i |-> x.i + y.i + 1, f |-> x.f + y.f - FracUnit]
  ELSE [i |-> x.i + y.i, f |-> x.f + y.f]

\* x - y on magnitudes, for MagCmp(x, y) >= 0
MagSub(x, y) ==
  IF x.f >= y.f
  THEN [i |-> x.i - y.i, f |-> x.f - y.f]
  ELSE [i |-> x.i - y.i - 1, f |-> x.f + FracUnit - y.f]

Signed(sgn, mag) ==
  [s |-> IF mag.i = 0 /\ mag.f = 0 THEN 1 ELSE sgn, i |-> mag.i, f |-> mag.f]

minus(x, y) ==
  IF x.s # y.s THEN Signed(x.s, MagAdd(x, y))
  ELSE IF MagCmp(x, y) < 0 THEN Signed(-(x.s), MagSub(y, x))
  ELSE Signed(x.s, MagSub(x, y))

RECURSIVE StripZeros(_)
StripZeros(ds) ==
  IF ds # << >> /\ ds[Len(ds)] = "0" THEN StripZeros(SubSeq(ds, 1, Len(ds) - 1)) ELSE ds

\* the fraction part as exactly FracDigits digits
PadFrac(f) ==
  LET ds == DigitsOf(f)
  IN  [k \in 1..(FracDigits - Len(ds)) |-> "0"] \o ds

\* Big.prototype.toString in normal notation, which big.js uses from 1e-7 up to
\* 1e21; a Big of this model has at most FracDigits fraction digits
toString(x) ==
  LET fr == IF x.f = 0 THEN << >> ELSE StripZeros(PadFrac(x.f))
      body == IF fr = << >> THEN DigitsOf(x.i) ELSE DigitsOf(x.i) \o <<".">> \o fr
  IN  IF x.s < 0 /\ ~IsZero(x) THEN <<"-">> \o body ELSE body

\* ------------------------------------------------------ heaps (heap-js)
\* The object a reference names: objs[ts + 1] is the BookOrder whose ts is ts.
Obj(objs, ref) == objs[ref + 1]

\* faulty variant: equal prices ordered newest first
bidsCompareLifo(a, b) == IF eq(a.price, b.price) THEN b.ts - a.ts ELSE cmp(b.price, a.price)

\* Bid max-heap comparator: highest price first, FIFO on equal price
bidsCompare(a, b) == IF eq(a.price, b.price) THEN a.ts - b.ts ELSE cmp(b.price, a.price)

\* faulty variant: the highest ask first
asksCompareHighest(a, b) == IF eq(a.price, b.price) THEN a.ts - b.ts ELSE cmp(b.price, a.price)

\* Ask min-heap comparator: lowest price first, FIFO on equal price
asksCompare(a, b) == IF eq(a.price, b.price) THEN a.ts - b.ts ELSE cmp(a.price, b.price)

compare(side, a, b) == IF side = "BUY" THEN bidsCompare(a, b) ELSE asksCompare(a, b)

Swap(arr, i, j) == [arr EXCEPT ![i] = arr[j], ![j] = arr[i]]

\* Heap._sortNodeUp; arrays are 1-based here, so the parent of i is i \div 2
RECURSIVE sortNodeUp(_, _, _, _)
sortNodeUp(objs, side, arr, i) ==
  IF i > 1 /\ compare(side, Obj(objs, arr[i \div 2]), Obj(objs, arr[i])) > 0
  THEN sortNodeUp(objs, side, Swap(arr, i, i \div 2), i \div 2)
  ELSE arr

\* the better child of i: the left one unless the right one compares lower
bestChildIndex(objs, side, arr, i) ==
  IF 2 * i + 1 <= Len(arr)
     /\ compare(side, Obj(objs, arr[2 * i + 1]), Obj(objs, arr[2 * i])) < 0
  THEN 2 * i + 1
  ELSE 2 * i

\* Heap._sortNodeDown
RECURSIVE sortNodeDown(_, _, _, _)
sortNodeDown(objs, side, arr, i) ==
  IF 2 * i <= Len(arr)
  THEN LET c == bestChildIndex(objs, side, arr, i)
       IN  IF compare(side, Obj(objs, arr[i]), Obj(objs, arr[c])) > 0
           THEN sortNodeDown(objs, side, Swap(arr, i, c), c)
           ELSE arr
  ELSE arr

\* Heap.push of one element
heapPush(objs, side, arr, ref) ==
  sortNodeUp(objs, side, Append(arr, ref), Len(arr) + 1)

\* Heap.pop, the array it leaves
heapPop(objs, side, arr) ==
  IF Len(arr) <= 1 THEN << >>
  ELSE sortNodeDown(objs, side,
                    [SubSeq(arr, 1, Len(arr) - 1) EXCEPT ![1] = arr[Len(arr)]], 1)

\* Array.findIndex with Heap.defaultIsEqual (===), 0 when absent
findIndex(arr, ref) ==
  IF \E k \in 1..Len(arr) : arr[k] = ref
  THEN CHOOSE k \in 1..Len(arr) : arr[k] = ref /\ \A j \in 1..(k - 1) : arr[j] # ref
  ELSE 0

\* Heap.remove(o): the element identical to o leaves the array
heapRemove(objs, side, arr, ref) ==
  LET idx == findIndex(arr, ref)
  IN  IF idx = 0 THEN arr
      ELSE IF idx = 1 THEN heapPop(objs, side, arr)
      ELSE IF idx = Len(arr) THEN SubSeq(arr, 1, Len(arr) - 1)
      ELSE LET spliced == [SubSeq(arr, 1, Len(arr) - 1) EXCEPT ![idx] = arr[Len(arr)]]
           IN  sortNodeDown(objs, side, sortNodeUp(objs, side, spliced, idx), idx)

\* ----------------------------------------------------------- OrderBook
\* new Map(); Map.has / Map.set / Map.delete: a function from keys to values
emptyMap == [x \in {} |-> 0]

mapHas(m, k) == k \in DOMAIN m

mapSet(m, k, v) == [x \in (DOMAIN m) \cup {k} |-> IF x = k THEN v ELSE m[x]]

mapDelete(m, k) == [x \in (DOMAIN m) \ {k} |-> m[x]]

\* new OrderBook(pair).  objs (every BookOrder this book allocated) and fills
\* (who traded, one entry per trade) are the model's record of the objects.
newOrderBook(pair) ==
  [pair |-> pair, bids |-> << >>, asks |-> << >>, idIndex |-> emptyMap,
   seq |-> 0, trades |-> << >>, objs |-> << >>, fills |-> << >>]

\* faulty variant: an order whose id is live is not added
addUnlessLive(book, ref) ==
  LET order == Obj(book.objs, ref)
      b1 == [book EXCEPT !.idIndex = mapSet(@, order.id, ref)]
  IN  IF mapHas(book.idIndex, order.id) THEN book
      ELSE IF order.side = "BUY"
      THEN [b1 EXCEPT !.bids = heapPush(book.objs, "BUY", @, ref)]
      ELSE [b1 EXCEPT !.asks = heapPush(book.objs, "SELL", @, ref)]

add(book, ref) ==
  LET order == Obj(book.objs, ref)
      b1 == [book EXCEPT !.idIndex = mapSet(@, order.id, ref)]
  IN  IF order.side = "BUY"
      THEN [b1 EXCEPT !.bids = heapPush(book.objs, "BUY", @, ref)]
      ELSE [b1 EXCEPT !.asks = heapPush(book.objs, "SELL", @, ref)]

remove(book, ref) ==
  LET order == Obj(book.objs, ref)
      b1 == IF order.side = "BUY"
            THEN [book EXCEPT !.bids = heapRemove(book.objs, "BUY", @, ref)]
            ELSE [book EXCEPT !.asks = heapRemove(book.objs, "SELL", @, ref)]
  IN  [b1 EXCEPT !.idIndex = mapDelete(@, order.id)]

\* faulty variant: the limit price is not looked at
priceOKAlways(isBuy, incoming, best) == TRUE

\* faulty variant: an order does not trade with an order of its own account
priceOKOtherAccount(isBuy, incoming, best) ==
  /\ incoming.account # best.account
  /\ IF isBuy THEN gte(incoming.price, best.price) ELSE lte(incoming.price, best.price)

\* faulty variant: equal prices do not cross
priceOKStrict(isBuy, incoming, best) ==
  IF isBuy THEN gt(incoming.price, best.price) ELSE lt(incoming.price, best.price)

\* line 65: does incoming cross best
priceOK(isBuy, incoming, best) ==
  IF isBuy THEN gte(incoming.price, best.price) ELSE lte(incoming.price, best.price)

\* faulty variant: the whole resting quantity trades
tradeQtyBest(incoming, best) == best.remaining

\* faulty variant: the whole incoming quantity trades
tradeQtyIncoming(incoming, best) == incoming.remaining

\* line 70: the smaller of the two remaining quantities
tradeQty(incoming, best) ==
  IF lt(incoming.remaining, best.remaining) THEN incoming.remaining ELSE best.remaining

\* faulty variant: the incoming order's price
tradePriceTaker(incoming, best) == incoming.price

\* line 73: the resting order's price
tradePrice(incoming, best) == best.price

\* faulty variant: only the incoming order gives up qty
applyFillIncomingOnly(objs, inc, bestRef, qty) ==
  [objs EXCEPT ![inc + 1].remaining = minus(@, qty)]

\* faulty variant: the resting order is also moved to the incoming order's price
applyFillReprices(objs, inc, bestRef, qty) ==
  [objs EXCEPT ![inc + 1].remaining = minus(@, qty),
               ![bestRef + 1].remaining = minus(@, qty),
               ![bestRef + 1].price = objs[inc + 1].price]

\* faulty variant: only the resting order gives up qty
applyFillBestOnly(objs, inc, bestRef, qty) ==
  [objs EXCEPT ![bestRef + 1].remaining = minus(@, qty)]

\* lines 84-85: both orders give up qty
applyFill(objs, inc, bestRef, qty) ==
  [objs EXCEPT ![inc + 1].remaining = minus(@, qty),
               ![bestRef + 1].remaining = minus(@, qty)]

\* what Date.now() can return, each time it is called
Times == 0..MaxNow

\* one pass of the while loop of match, repeated until its guard or priceOK fails.
\* Every trade reads Date.now() for itself, so match gives the set of the books
\* it can leave, one for each way the clock can read at its trades.
\* Each trade leaves a fill: maker and taker by reference, the quantity and price
\* as Big, what the two orders had left and the array of the consumed side when
\* the trade was made.
RECURSIVE match(_, _)
match(book, inc) ==
  LET incoming == Obj(book.objs, inc)
      isBuy == incoming.side = "BUY"
      bookSide == IF isBuy THEN book.asks ELSE book.bids
  IN  IF ~(gt(incoming.remaining, Zero) /\ Len(bookSide) > 0) THEN {book}
      ELSE
        LET bestRef == bookSide[1]
            best == Obj(book.objs, bestRef)
            qty == tradeQty(incoming, best)
            trade(now) == [pair |-> book.pair,
                           buyOrderId |-> IF isBuy THEN incoming.id ELSE best.id,
                           sellOrderId |-> IF isBuy THEN best.id ELSE incoming.id,
                           price |-> toString(tradePrice(incoming, best)),
                           amount |-> toString(qty),
                           ts |-> now]
            fill == [maker |-> bestRef, taker |-> inc, qty |-> qty,
                     price |-> tradePrice(incoming, best), resting |-> bookSide,
                     takerLeft |-> incoming.remaining, makerLeft |-> best.remaining]
            b1(now) == [book EXCEPT
                          !.trades = Append(@, trade(now)),
                          !.fills = Append(@, fill),
                          !.objs = applyFill(@, inc, bestRef, qty)]
            b2(now) == IF eq(Obj(b1(now).objs, bestRef).remaining, Zero)
                       THEN remove(b1(now), bestRef) ELSE b1(now)
        IN  IF ~priceOK(isBuy, incoming, best) THEN {book}
            ELSE UNION {match(b2(now), inc) : now \in Times}

\* new Big(raw.limit_price) and new Big(raw.amount) both succeed
validDecimals(raw) == IsNumeric(raw.limit_price) /\ IsNumeric(raw.amount)

\* faulty variant: every DELETE leaves a record of amount 0 in trades
processDeleteLogged(book, raw) ==
  [(IF mapHas(book.idIndex, raw.order_id)
    THEN remove(book, book.idIndex[raw.order_id])
    ELSE book)
   EXCEPT !.trades = Append(@, [pair |-> book.pair, buyOrderId |-> raw.order_id,
                                sellOrderId |-> raw.order_id, price |-> <<"0">>,
                                amount |-> <<"0">>, ts |-> 0])]

\* faulty variant: the order is dropped from the index and left in its heap
processDeleteIndexOnly(book, raw) ==
  IF mapHas(book.idIndex, raw.order_id)
  THEN [book EXCEPT !.idIndex = mapDelete(@, raw.order_id)]
  ELSE book

\* faulty variant: the sequence number is taken before the DELETE branch returns
processDeleteBumpSeq(book, raw) ==
  [(IF mapHas(book.idIndex, raw.order_id)
    THEN remove(book, book.idIndex[raw.order_id])
    ELSE book) EXCEPT !.seq = @ + 1]

\* lines 25-31: the DELETE branch of process
processDelete(book, raw) ==
  IF mapHas(book.idIndex, raw.order_id)
  THEN remove(book, book.idIndex[raw.order_id])
  ELSE book

\* faulty variant: remaining is parsed from limit_price
newOrderAmountFromPrice(book, raw) ==
  [id |-> raw.order_id, account |-> raw.account_id, side |-> raw.side,
   pair |-> raw.pair, price |-> Big(raw.limit_price),
   remaining |-> Big(raw.limit_price), ts |-> book.seq]

\* lines 33-41: the BookOrder of a CREATE
newOrder(book, raw) ==
  [id |-> raw.order_id, account |-> raw.account_id, side |-> raw.side,
   pair |-> raw.pair, price |-> Big(raw.limit_price),
   remaining |-> Big(raw.amount), ts |-> book.seq]

\* faulty variant: an order with nothing left rests too
restsOrZero(order) == gte(order.remaining, Zero)

\* line 43: an order with something left rests
rests(order) == gt(order.remaining, Zero)

\* process(raw) when no exception is thrown: the books it can leave, one for
\* each way the clock can read at the trades of match
process(book, raw) ==
  IF raw.type_op = "DELETE" THEN {processDelete(book, raw)}
  ELSE LET order == newOrder(book, raw)
           b1 == [book EXCEPT !.seq = @ + 1, !.objs = Append(@, order)]
       IN  {IF rests(Obj(b2.objs, order.ts)) THEN add(b2, order.ts) ELSE b2 :
              b2 \in match(b1, order.ts)}

\* process(raw) throws: a command that is no DELETE and whose limit_price or
\* amount is no decimal
processThrows(raw) == raw.type_op # "DELETE" /\ ~validDecimals(raw)

\* the references of a heap array in priority order
RECURSIVE inPriorityOrder(_, _, _)
inPriorityOrder(objs, side, arr) ==
  IF arr = << >> THEN << >>
  ELSE <<arr[1]>> \o inPriorityOrder(objs, side, heapPop(objs, side, arr))

\* faulty variant: the snapshot lists a side in price-time order
normalizeSideSorted(book, arr) ==
  LET sorted == IF arr = << >> THEN arr
                ELSE inPriorityOrder(book.objs, Obj(book.objs, arr[1]).side, arr)
  IN  [k \in 1..Len(sorted) |->
         LET o == Obj(book.objs, sorted[k])
         IN  [id |-> o.id, account |-> o.account,
              price |-> toString(o.price), remaining |-> toString(o.remaining)]]

\* lines 96-101 and 102-107: one side of the snapshot, in heap-array order
normalizeSide(book, arr) ==
  [k \in 1..Len(arr) |->
     LET o == Obj(book.objs, arr[k])
     IN  [id |-> o.id, account |-> o.account,
          price |-> toString(o.price), remaining |-> toString(o.remaining)]]

normalize(book) ==
  [pair |-> book.pair,
   bids |-> normalizeSide(book, book.bids),
   asks |-> normalizeSide(book, book.asks)]

\* ------------------------------------------------------- MatcherEngine
\* faulty variant: every pair is served by the first book
bookIndexFirst(bs, pair) == IF bs = << >> THEN 0 ELSE 1

\* books is the Map pair -> OrderBook in insertion order: a sequence of books.
bookIndex(bs, pair) ==
  IF \E k \in 1..Len(bs) : bs[k].pair = pair
  THEN CHOOSE k \in 1..Len(bs) : bs[k].pair = pair
  ELSE 0

\* faulty variant: a new book goes in front of the books there are
bookForFront(bs, pair) ==
  IF bookIndex(bs, pair) = 0 THEN <<newOrderBook(pair)>> \o bs ELSE bs

\* bookFor(pair): the Map after the lookup, with a new book when pair was absent
bookFor(bs, pair) ==
  IF bookIndex(bs, pair) = 0 THEN Append(bs, newOrderBook(pair)) ELSE bs

\* ingest(raw) when process returns: the Maps it can leave
ingest(bs, raw) ==
  LET bs1 == bookFor(bs, raw.pair)
      k == bookIndex(bs1, raw.pair)
  IN  {[bs1 EXCEPT ![k] = b] : b \in process(bs1[k], raw)}

\* faulty variant: the newest trade of each book comes first
RECURSIVE flatTradesNewestFirst(_)
flatTradesNewestFirst(bs) ==
  IF bs = << >> THEN << >>
  ELSE [i \in 1..Len(bs[1].trades) |-> bs[1].trades[Len(bs[1].trades) + 1 - i]]
       \o flatTradesNewestFirst(Tail(bs))

\* flatMap(b => b.trades) over the books in Map order
RECURSIVE flatTrades(_)
flatTrades(bs) ==
  IF bs = << >> THEN << >> ELSE bs[1].trades \o flatTrades(Tail(bs))

\* finish(): what it returns; its trades are also stored in MatcherEngine.trades
finish(bs) ==
  [orderbooks |-> [k \in 1..Len(bs) |-> normalize(bs[k])],
   trades |-> flatTrades(bs)]

\* ------------------------------------------------------------ commands
Raw(op, account, amount, id, pair, price, side) ==
  [type_op |-> op, account_id |-> account, amount |-> amount, order_id |-> id,
   pair |-> pair, limit_price |-> price, side |-> side]

\* the sample input of the service test
Fixture ==
  <<
    Raw("CREATE", "1", <<"0", ".", "0", "0", "2", "3", "0">>, "1", "BTC/USDC", <<"6", "3", "5", "0", "0", ".", "0", "0">>, "SELL"),
    Raw("CREATE", "2", <<"0", ".", "0", "0", "2", "3", "0">>, "2", "BTC/USDC", <<"6", "3", "5", "0", "0", ".", "0", "0">>, "BUY"),
    Raw("CREATE", "1", <<"0", ".", "0", "0", "7", "9", "8">>, "3", "BTC/USDC", <<"6", "2", "8", "8", "0", ".", "5", "4">>, "BUY"),
    Raw("CREATE", "2", <<"0", ".", "0", "0", "7", "9", "8">>, "4", "BTC/USDC", <<"6", "2", "8", "8", "0", ".", "5", "4">>, "SELL"),
    Raw("CREATE", "1", <<"0", ".", "1", "2", "7", "8", "5">>, "5", "BTC/USDC", <<"6", "1", "5", "7", "7", ".", "3", "0">>, "SELL"),
    Raw("DELETE", "1", <<"0", ".", "1", "2", "7", "8", "5">>, "5", "BTC/USDC", <<"6", "1", "5", "7", "7", ".", "3", "0">>, "SELL"),
    Raw("CREATE", "1", <<"0", ".", "2", "0", "0", "0", "0">>, "6", "BTC/USDC", <<"4", "7", "5", "0", "0">>, "SELL"),
    Raw("CREATE", "1", <<"0", ".", "2", "0", "0", "0", "0">>, "7", "BTC/USDC", <<"5", "0", "5", "0", "0">>, "BUY"),
    Raw("CREATE", "1", <<"6", ".", "3", "4", "5", "0", "0">>, "8", "BTC/USDC", <<"6", "1", "5", "7", "7", ".", "3", "0">>, "SELL"),
    Raw("CREATE", "2", <<"2", ".", "3", "4", "5", "0", "0">>, "9", "BTC/USDC", <<"6", "2", "5", "7", "7", ".", "3", "0">>, "BUY"),
    Raw("CREATE", "2", <<"2", ".", "0", "0", "0", "0", "0">>, "10", "BTC/USDC", <<"6", "3", "4", "7", "7", ".", "3", "0">>, "BUY"),
    Raw("CREATE", "2", <<"0", ".", "5", "0", "0", "0", "0">>, "11", "BTC/USDC", <<"6", "6", "5", "7", "7", ".", "3", "0">>, "BUY"),
    Raw("CREATE", "2", <<"3", ".", "5", "0", "0", "0", "0">>, "12", "BTC/USDC", <<"6", "1", "5", "7", "7", ".", "3", "0">>, "BUY"),
    Raw("CREATE", "2", <<"4", ".", "5", "0", "0", "0", "0">>, "13", "BTC/USDC", <<"6", "2", "8", "7", "7", ".", "3", "0">>, "BUY"),
    Raw("CREATE", "2", <<"3", ".", "5", "0", "0", "0", "0">>, "14", "BTC/USDC", <<"6", "2", "8", "7", "7", ".", "3", "0">>, "BUY"),
    Raw("CREATE", "2", <<"1", ".", "5", "7", "6", "0", "0">>, "15", "BTC/USDC", <<"6", "0", "5", "7", "7", ".", "3", "0">>, "BUY"),
    Raw("CREATE", "2", <<"1", ".", "5", "8", "9", "0", "0">>, "16", "BTC/USDC", <<"6", "5", "8", "6", "0", ".", "3", "0">>, "SELL"),
    Raw("CREATE", "2", <<"2", ".", "6", "7", "6", "0", "0">>, "17", "BTC/USDC", <<"6", "6", "4", "9", "0", ".", "5", "0">>, "SELL"),
    Raw("CREATE", "2", <<"0", ".", "4", "7", "6", "0", "0">>, "18", "BTC/USDC", <<"6", "0", "5", "7", "7", ".", "3", "0">>, "BUY"),
    Raw("CREATE", "2", <<"1", ".", "0", "0", "0", "0", "0">>, "19", "BTC/USDC", <<"6", "0", "5", "7", "7", ".", "3", "0">>, "BUY")
  >>

Sides == {"BUY", "SELL"}

OrderIds == {"1", "2"}

PriceStrs == {<<"9">>, <<"1", "0", ".", "5", "0">>}

AmountStrs == {<<"0">>, <<"1">>, <<"2", ".", "5", "0">>, <<"-", "1">>}

CreateCmds ==
  {Raw("CREATE", "1", a, id, "BTC/USDC", p, sd) :
     a \in AmountStrs, id \in OrderIds, p \in PriceStrs, sd \in Sides}

DeleteCmds ==
  {Raw("DELETE", "1", <<"0">>, id, pr, <<"0">>, "BUY") :
     id \in OrderIds, pr \in {"BTC/USDC", "ETH/USDC"}}

OtherPairCmds ==
  {Raw("CREATE", "2", <<"1">>, "1", "ETH/USDC", <<"9">>, sd) : sd \in Sides}

BadCmds ==
  {Raw("CREATE", "1", <<"1", "x">>, "1", "BTC/USDC", <<"9">>, "BUY"),
   Raw("CREATE", "1", <<"1">>, "1", "BTC/USDC", <<"9", ".", ".">>, "SELL"),
   Raw("DELETE", "1", <<"1", "x">>, "1", "BTC/USDC", <<"x">>, "SELL")}

\* a CREATE whose amount is in exponent notation
ExpCmds == {Raw("CREATE", "1", <<"2", "5", "e", "-", "1">>, "2", "BTC/USDC", <<"9">>, "SELL")}

Commands == CreateCmds \cup DeleteCmds \cup OtherPairCmds \cup BadCmds \cup ExpCmds

\* one pair, positive amounts: fewer commands, for longer streams
DeepCmds ==
  {Raw("CREATE", "1", a, id, "BTC/USDC", p, sd) :
     a \in {<<"1">>, <<"2", ".", "5", "0">>}, id \in OrderIds, p \in PriceStrs, sd \in Sides}
  \cup {Raw("DELETE", "1", <<"0">>, id, "BTC/USDC", <<"0">>, "BUY") : id \in OrderIds}

\* two pairs, one id and one price, for streams that alternate; account 1 sells
\* and buys, account 2 buys
Accounts == {"1", "2"}

PairCmds ==
  {Raw("CREATE", who[1], a, "1", pr, <<"9">>, who[2]) :
     who \in {w \in Accounts \X Sides : w[1] = "1" \/ w[2] = "BUY"},
     a \in {<<"1">>, <<"2", ".", "5", "0">>}, pr \in {"BTC/USDC", "ETH/USDC"}}
  \cup {Raw("DELETE", "1", <<"0">>, "1", pr, <<"0">>, "BUY") : pr \in {"BTC/USDC", "ETH/USDC"}}

\* --------------------------------------------------------------- state
VARIABLES
  books,    \* MatcherEngine.books
  trades,   \* MatcherEngine.trades
  phase,    \* ProcessOrderService.process: "ingesting", "done" or "failed"
  result,   \* what process returned: << >> or <<finish()>>
  stream,   \* the commands handed to ingest so far
  files     \* what storeResult wrote: << >> or <<the two files>>

vars == <<books, trades, phase, result, stream, files>>

Init ==
  /\ books = << >>
  /\ trades = << >>
  /\ phase = "ingesting"
  /\ result = << >>
  /\ stream = << >>
  /\ files = << >>

\* faulty variant: the write callback swallows the exception and goes on
WriteSwallow(raw) ==
  /\ phase = "ingesting"
  /\ stream' = Append(stream, raw)
  /\ books' \in (IF processThrows(raw) THEN {bookFor(books, raw.pair)} ELSE ingest(books, raw))
  /\ phase' = phase
  /\ UNCHANGED <<trades, result, files>>

\* the write callback of ingestStream: engine.ingest(value)
Write(raw) ==
  /\ phase = "ingesting"
  /\ stream' = Append(stream, raw)
  /\ IF processThrows(raw)
     THEN /\ books' = bookFor(books, raw.pair)
          /\ phase' = "failed"
     ELSE /\ books' \in ingest(books, raw)
          /\ phase' = phase
  /\ UNCHANGED <<trades, result, files>>

Ingest ==
  /\ Len(stream) < MaxCmds
  /\ \E raw \in Commands : Write(raw)

IngestDeep ==
  /\ Len(stream) < MaxDeepCmds
  /\ \E raw \in DeepCmds : Write(raw)

IngestPairs ==
  /\ Len(stream) < MaxPairCmds
  /\ \E raw \in PairCmds : Write(raw)

IngestFixture ==
  /\ Len(stream) < Len(Fixture)
  /\ Write(Fixture[Len(stream) + 1])

\* the stream ended: return engine.finish()
Finish ==
  /\ phase = "ingesting"
  /\ trades' = finish(books).trades
  /\ result' = <<finish(books)>>
  /\ phase' = "done"
  /\ UNCHANGED <<books, stream, files>>

\* runFromFile after process returned: storeResult writes the two files
StoreResult ==
  /\ phase = "done"
  /\ files = << >>
  /\ files' = <<[orderbook |-> result[1].orderbooks, trades |-> result[1].trades]>>
  /\ UNCHANGED <<books, trades, phase, result, stream>>

FinishFixture == Len(stream) = Len(Fixture) /\ Finish

Next == Ingest \/ Finish \/ StoreResult

Spec == Init /\ [][Next]_vars

NextDeep == IngestDeep \/ Finish

SpecDeep == Init /\ [][NextDeep]_vars

NextPairs == IngestPairs \/ Finish

SpecPairs == Init /\ [][NextPairs]_vars

NextFixture == IngestFixture \/ FinishFixture

SpecFixture == Init /\ [][NextFixture]_vars

\* ------------------------------------------------------------- claims
\* the references resting in book: the members of its two heap arrays
restingRefs(book) ==
  {book.bids[k] : k \in 1..Len(book.bids)} \cup {book.asks[k] : k \in 1..Len(book.asks)}

isResting(book, ref) == ref \in restingRefs(book)

refsOf(book) == 0..(Len(book.objs) - 1)

\* a command that allocates a BookOrder in the book of pair
createsIn(raw, pair) ==
  raw.type_op # "DELETE" /\ raw.pair = pair /\ validDecimals(raw)

\* the position in stream of the CREATE that made the order ts of pair's book
createPos(pair, ts) ==
  CHOOSE j \in 1..Len(stream) :
    /\ createsIn(stream[j], pair)
    /\ Cardinality({i \in 1..(j - 1) : createsIn(stream[i], pair)}) = ts

\* the amount the CREATE of the order asked for
initialAmount(pair, ts) == Big(stream[createPos(pair, ts)].amount)

\* a DELETE naming the order's id on its pair came after its CREATE
deletedLater(pair, ts) ==
  \E j \in (createPos(pair, ts) + 1)..Len(stream) :
    /\ stream[j].type_op = "DELETE"
    /\ stream[j].pair = pair
    /\ stream[j].order_id = stream[createPos(pair, ts)].order_id

plus(x, y) == minus(x, [y EXCEPT !.s = -(y.s)])

inFill(f, ref) == f.maker = ref \/ f.taker = ref

\* the sum of the amounts, as printed, of the first n trades of book that ref is in
RECURSIVE tradedSum(_, _, _)
tradedSum(book, ref, n) ==
  IF n = 0 THEN Zero
  ELSE IF inFill(book.fills[n], ref)
       THEN plus(tradedSum(book, ref, n - 1), Big(book.trades[n].amount))
       ELSE tradedSum(book, ref, n - 1)

\* C1: in every book every resting bid is priced strictly below every resting ask.
C1_NoCrossedBook ==
  \A k \in 1..Len(books) :
    \A i \in 1..Len(books[k].bids) : \A j \in 1..Len(books[k].asks) :
      lt(Obj(books[k].objs, books[k].bids[i]).price,
         Obj(books[k].objs, books[k].asks[j]).price)

C1_Witness ==
  \E k \in 1..Len(books) :
    /\ books[k].bids # << >>
    /\ books[k].asks # << >>
    /\ books[k].trades # << >>

\* C2 as claimed: the amount of every created order is the sum of its trades plus
\* its residual, the residual being 0 for an order that does not rest.
C2_ConservationAsClaimed ==
  \A k \in 1..Len(books) : \A ref \in refsOf(books[k]) :
    initialAmount(books[k].pair, ref) =
      plus(tradedSum(books[k], ref, Len(books[k].trades)),
           IF isResting(books[k], ref) THEN Obj(books[k].objs, ref).remaining ELSE Zero)

\* C2: the amount of every created order is the sum of its trades plus the
\* remaining of its BookOrder; that remaining is 0 for an order that does not
\* rest unless a DELETE cancelled it or its amount was not positive.
C2_Conservation ==
  \A k \in 1..Len(books) : \A ref \in refsOf(books[k]) :
    LET book == books[k]
        left == Obj(book.objs, ref).remaining
    IN  /\ initialAmount(book.pair, ref) =
             plus(tradedSum(book, ref, Len(book.trades)), left)
        /\ (~isResting(book, ref) /\ ~IsZero(left)) =>
             \/ deletedLater(book.pair, ref)
             \/ lte(initialAmount(book.pair, ref), Zero)

C2_Witness ==
  \E k \in 1..Len(books) : \E ref \in refsOf(books[k]) :
    /\ ~isResting(books[k], ref)
    /\ deletedLater(books[k].pair, ref)
    /\ gt(Obj(books[k].objs, ref).remaining, Zero)
    /\ \E n \in 1..Len(books[k].fills) : inFill(books[k].fills[n], ref)

\* an earlier order of the same side and price as the order later
aheadOf(book, earlier, later) ==
  /\ earlier < later
  /\ Obj(book.objs, earlier).side = Obj(book.objs, later).side
  /\ eq(Obj(book.objs, earlier).price, Obj(book.objs, later).price)

\* C3 as claimed: when an order is the maker of a trade, every earlier order of
\* its side and price has been consumed in full by the trades before that one.
C3_FifoAsClaimed ==
  \A k \in 1..Len(books) : \A n \in 1..Len(books[k].fills) :
    \A a \in refsOf(books[k]) :
      aheadOf(books[k], a, books[k].fills[n].maker) =>
        tradedSum(books[k], a, n - 1) = initialAmount(books[k].pair, a)

\* C3: when an order is the maker of a trade, no earlier order of its side and
\* price is resting at that moment.
C3_Fifo ==
  \A k \in 1..Len(books) : \A n \in 1..Len(books[k].fills) :
    \A a \in refsOf(books[k]) :
      aheadOf(books[k], a, books[k].fills[n].maker) =>
        \A i \in 1..Len(books[k].fills[n].resting) : books[k].fills[n].resting[i] # a

C3_Witness ==
  \E k \in 1..Len(books) : \E m, n \in 1..Len(books[k].fills) :
    /\ m < n
    /\ aheadOf(books[k], books[k].fills[m].maker, books[k].fills[n].maker)
    /\ books[k].fills[m].taker = books[k].fills[n].taker

\* the limit price the CREATE of the order carried
limitPrice(pair, ts) == Big(stream[createPos(pair, ts)].limit_price)

\* C4: every trade is priced at the limit price of its maker, not at the taker's
\* when they differ; a BUY taker pays at most, a SELL taker gets at least, its limit.
C4_PriceImprovement ==
  \A k \in 1..Len(books) : \A n \in 1..Len(books[k].trades) :
    LET book == books[k]
        f == book.fills[n]
        makerPx == limitPrice(book.pair, f.maker)
        takerPx == limitPrice(book.pair, f.taker)
    IN  /\ book.trades[n].price = toString(makerPx)
        /\ ~eq(makerPx, takerPx) => book.trades[n].price # toString(takerPx)
        /\ Obj(book.objs, f.taker).side = "BUY" => lte(Big(book.trades[n].price), takerPx)
        /\ Obj(book.objs, f.taker).side = "SELL" => gte(Big(book.trades[n].price), takerPx)

C4_Witness ==
  \E k \in 1..Len(books) : \E n \in 1..Len(books[k].trades) :
    ~eq(limitPrice(books[k].pair, books[k].fills[n].maker),
        limitPrice(books[k].pair, books[k].fills[n].taker))

\* the step ingests one command
ingested == Len(stream') = Len(stream) + 1

lastCmd == stream[Len(stream)]

\* the step ingests a DELETE whose order_id no earlier command used
deleteUnknownStep ==
  /\ ingested
  /\ stream'[Len(stream')].type_op = "DELETE"
  /\ \A j \in 1..Len(stream) : stream[j].order_id # stream'[Len(stream')].order_id

\* C5 as claimed: a DELETE of an id never used leaves the engine as it was, so
\* that finish() returns the same orderbooks and trades.
C5_DeleteUnknownAsClaimed ==
  [][deleteUnknownStep => (books' = books /\ finish(books') = finish(books))]_vars

emptySnapshot(pair) == [pair |-> pair, bids |-> << >>, asks |-> << >>]

\* C5: a DELETE of an id never used leaves every book as it was and adds no
\* trade; when no earlier command named its pair it adds that pair's empty book,
\* which finish() reports as one more snapshot with no bids and no asks.
C5_DeleteUnknown ==
  [][deleteUnknownStep =>
       LET pair == stream'[Len(stream')].pair
       IN  /\ phase' = phase
           /\ finish(books').trades = finish(books).trades
           /\ IF bookIndex(books, pair) # 0
              THEN books' = books
              ELSE /\ books' = Append(books, newOrderBook(pair))
                   /\ finish(books').orderbooks =
                        Append(finish(books).orderbooks, emptySnapshot(pair))]_vars

C5_Witness ==
  /\ Len(stream) > 1
  /\ lastCmd.type_op = "DELETE"
  /\ \A j \in 1..(Len(stream) - 1) : stream[j].order_id # lastCmd.order_id
  /\ \E k \in 1..Len(books) :
       books[k].pair = lastCmd.pair /\ restingRefs(books[k]) # {} /\ books[k].trades # << >>

\* the number of places an order holds in the two heap arrays
heapCount(book, ref) ==
  Cardinality({i \in 1..Len(book.bids) : book.bids[i] = ref})
  + Cardinality({i \in 1..Len(book.asks) : book.asks[i] = ref})

indexed(book, ref) ==
  mapHas(book.idIndex, Obj(book.objs, ref).id) /\ book.idIndex[Obj(book.objs, ref).id] = ref

\* C6: every BookOrder is either once in the heaps and the value idIndex stores
\* under its id, or in no heap and not in idIndex; idIndex maps only to orders
\* in a heap.
C6_IndexHeapConsistency ==
  \A k \in 1..Len(books) :
    /\ \A ref \in refsOf(books[k]) :
         \/ heapCount(books[k], ref) = 1 /\ indexed(books[k], ref)
         \/ heapCount(books[k], ref) = 0 /\ ~indexed(books[k], ref)
    /\ \A id \in DOMAIN books[k].idIndex : isResting(books[k], books[k].idIndex[id])

\* C7: every resting order has remaining > 0.
C7_RestingPositive ==
  \A k \in 1..Len(books) : \A ref \in restingRefs(books[k]) :
    gt(Obj(books[k].objs, ref).remaining, Zero)

C7_Witness ==
  \E k \in 1..Len(books) :
    /\ \E ref \in restingRefs(books[k]) :
         \E n \in 1..Len(books[k].fills) : inFill(books[k].fills[n], ref)
    /\ \E ref \in refsOf(books[k]) :
         ~isResting(books[k], ref) /\ lte(initialAmount(books[k].pair, ref), Zero)

\* the step ingests a CREATE whose amount parses to 0
zeroCreateStep ==
  /\ ingested
  /\ stream'[Len(stream')].type_op = "CREATE"
  /\ validDecimals(stream'[Len(stream')])
  /\ IsZero(Big(stream'[Len(stream')].amount))

\* what a zero-amount CREATE may change: the seq of its book and the discarded object
zeroCreateFrame ==
  LET raw == stream'[Len(stream')]
      before == bookFor(books, raw.pair)
      k == bookIndex(before, raw.pair)
  IN  /\ Len(books') = Len(before)
      /\ \A j \in 1..Len(before) : j # k => books'[j] = before[j]
      /\ books'[k].bids = before[k].bids
      /\ books'[k].asks = before[k].asks
      /\ books'[k].idIndex = before[k].idIndex
      /\ books'[k].trades = before[k].trades
      /\ \A ref \in refsOf(before[k]) : Obj(books'[k].objs, ref) = Obj(before[k].objs, ref)
      /\ normalize(books'[k]) = normalize(before[k])

\* an order created with amount 0 takes no part in anything
zeroNeverSeen ==
  \A k \in 1..Len(books) : \A ref \in refsOf(books[k]) :
    IsZero(initialAmount(books[k].pair, ref)) =>
      /\ ~isResting(books[k], ref)
      /\ \A id \in DOMAIN books[k].idIndex : books[k].idIndex[id] # ref
      /\ \A n \in 1..Len(books[k].fills) : ~inFill(books[k].fills[n], ref)

\* C10: a CREATE of amount 0 emits no trade, enters no heap and no idIndex,
\* changes no resting order, and never shows in a later snapshot.
C10_ZeroCreateSkipped == [][zeroCreateStep => zeroCreateFrame]_vars /\ []zeroNeverSeen

C10_Witness ==
  /\ Len(stream) > 1
  /\ lastCmd.type_op = "CREATE"
  /\ validDecimals(lastCmd)
  /\ IsZero(Big(lastCmd.amount))
  /\ \E k \in 1..Len(books) :
       /\ books[k].pair = lastCmd.pair
       /\ lastCmd.side = "BUY"
       /\ books[k].asks # << >>
       /\ gte(Big(lastCmd.limit_price), Obj(books[k].objs, books[k].asks[1]).price)
       /\ books[k].trades # << >>

\* a Trade without its ts, as the service test compares it (toMatchObject)
withoutTs(t) ==
  [pair |-> t.pair, buyOrderId |-> t.buyOrderId, sellOrderId |-> t.sellOrderId,
   price |-> t.price, amount |-> t.amount]

expectedTrades ==
  <<
    [pair |-> "BTC/USDC", buyOrderId |-> "2", sellOrderId |-> "1",
     price |-> <<"6", "3", "5", "0", "0">>, amount |-> <<"0", ".", "0", "0", "2", "3">>],
    [pair |-> "BTC/USDC", buyOrderId |-> "3", sellOrderId |-> "4",
     price |-> <<"6", "2", "8", "8", "0", ".", "5", "4">>, amount |-> <<"0", ".", "0", "0", "7", "9", "8">>],
    [pair |-> "BTC/USDC", buyOrderId |-> "7", sellOrderId |-> "6",
     price |-> <<"4", "7", "5", "0", "0">>, amount |-> <<"0", ".", "2">>],
    [pair |-> "BTC/USDC", buyOrderId |-> "9", sellOrderId |-> "8",
     price |-> <<"6", "1", "5", "7", "7", ".", "3">>, amount |-> <<"2", ".", "3", "4", "5">>],
    [pair |-> "BTC/USDC", buyOrderId |-> "10", sellOrderId |-> "8",
     price |-> <<"6", "1", "5", "7", "7", ".", "3">>, amount |-> <<"2">>],
    [pair |-> "BTC/USDC", buyOrderId |-> "11", sellOrderId |-> "8",
     price |-> <<"6", "1", "5", "7", "7", ".", "3">>, amount |-> <<"0", ".", "5">>],
    [pair |-> "BTC/USDC", buyOrderId |-> "12", sellOrderId |-> "8",
     price |-> <<"6", "1", "5", "7", "7", ".", "3">>, amount |-> <<"1", ".", "5">>]
  >>

expectedOrderbooks ==
  <<
    [pair |-> "BTC/USDC",
     bids |-> <<
       [id |-> "13", account |-> "2", price |-> <<"6", "2", "8", "7", "7", ".", "3">>, remaining |-> <<"4", ".", "5">>],
       [id |-> "12", account |-> "2", price |-> <<"6", "1", "5", "7", "7", ".", "3">>, remaining |-> <<"2">>],
       [id |-> "14", account |-> "2", price |-> <<"6", "2", "8", "7", "7", ".", "3">>, remaining |-> <<"3", ".", "5">>],
       [id |-> "15", account |-> "2", price |-> <<"6", "0", "5", "7", "7", ".", "3">>, remaining |-> <<"1", ".", "5", "7", "6">>],
       [id |-> "18", account |-> "2", price |-> <<"6", "0", "5", "7", "7", ".", "3">>, remaining |-> <<"0", ".", "4", "7", "6">>],
       [id |-> "19", account |-> "2", price |-> <<"6", "0", "5", "7", "7", ".", "3">>, remaining |-> <<"1">>]
     >>,
     asks |-> <<
       [id |-> "16", account |-> "2", price |-> <<"6", "5", "8", "6", "0", ".", "3">>, remaining |-> <<"1", ".", "5", "8", "9">>],
       [id |-> "17", account |-> "2", price |-> <<"6", "6", "4", "9", "0", ".", "5">>, remaining |-> <<"2", ".", "6", "7", "6">>]
     >>]
  >>

fixtureDone == phase = "done" /\ stream = Fixture

\* C8: the sample input yields exactly the seven expected trades, in order,
\* whatever the clock reads.
C8_FixtureTrades ==
  fixtureDone =>
    /\ Len(result[1].trades) = 7
    /\ [k \in 1..Len(result[1].trades) |-> withoutTs(result[1].trades[k])] = expectedTrades
    /\ trades = result[1].trades

C8_Witness == fixtureDone /\ Len(result[1].trades) = 7 /\ result[1].trades[7].ts = MaxNow

\* C9: the sample input leaves one orderbook, BTC/USDC, whose bids and asks are
\* the resting orders in heap-array order.
C9_FixtureBook == fixtureDone => result[1].orderbooks = expectedOrderbooks

C9_Witness ==
  /\ fixtureDone
  /\ Len(result[1].orderbooks) = 1
  /\ Len(result[1].orderbooks[1].bids) = 6
  /\ books[1].bids = <<12, 11, 13, 14, 17, 18>>

\* the orders of book that a CREATE carrying this order_id made
refsWithId(book, id) == {ref \in refsOf(book) : Obj(book.objs, ref).id = id}

\* the command the step ingests
cmd == stream'[Len(stream')]

\* the step ingests a DELETE naming an id that one CREATE of its pair used and
\* whose order is resting
deleteRestingStep ==
  /\ ingested
  /\ cmd.type_op = "DELETE"
  /\ bookIndex(books, cmd.pair) # 0
  /\ LET book == books[bookIndex(books, cmd.pair)]
     IN  /\ Cardinality(refsWithId(book, cmd.order_id)) = 1
         /\ refsWithId(book, cmd.order_id) \subseteq restingRefs(book)

\* what that DELETE does: its order leaves its heap and the index, all else stays
deleteRestingFrame ==
  LET k == bookIndex(books, cmd.pair)
      book == books[k]
      after == books'[k]
      ref == CHOOSE r \in refsWithId(book, cmd.order_id) : TRUE
  IN  /\ Len(books') = Len(books)
      /\ \A j \in 1..Len(books) : j # k => books'[j] = books[j]
      /\ restingRefs(after) = restingRefs(book) \ {ref}
      /\ heapCount(after, ref) = 0
      /\ ~mapHas(after.idIndex, cmd.order_id)
      /\ \A id \in DOMAIN book.idIndex :
           id # cmd.order_id => (mapHas(after.idIndex, id) /\ after.idIndex[id] = book.idIndex[id])
      /\ DOMAIN after.idIndex \subseteq DOMAIN book.idIndex
      /\ IF Obj(book.objs, ref).side = "BUY"
         THEN after.asks = book.asks /\ Len(after.bids) = Len(book.bids) - 1
         ELSE after.bids = book.bids /\ Len(after.asks) = Len(book.asks) - 1
      /\ after.trades = book.trades
      /\ after.fills = book.fills
      /\ after.objs = book.objs
      /\ after.seq = book.seq
      /\ phase' = phase

\* an order that is not resting does not rest again and is in no trade made later
goneStaysGone ==
  \A k \in 1..Len(books) : \A ref \in refsOf(books[k]) :
    ~isResting(books[k], ref) =>
      /\ Len(books') >= k
      /\ ~isResting(books'[k], ref)
      /\ \A n \in (Len(books[k].fills) + 1)..Len(books'[k].fills) :
           ~inFill(books'[k].fills[n], ref)

\* one CREATE and then the DELETE of its id leave the book of the pair empty
createThenDeleteEmpty ==
  (/\ Len(stream) = 2
   /\ createsIn(stream[1], stream[1].pair)
   /\ stream[2].type_op = "DELETE"
   /\ stream[2].pair = stream[1].pair
   /\ stream[2].order_id = stream[1].order_id)
  => /\ Len(books) = 1
     /\ books[1].bids = << >>
     /\ books[1].asks = << >>
     /\ DOMAIN books[1].idIndex = {}
     /\ books[1].trades = << >>

\* C11: the DELETE of a resting order whose id a single CREATE of the pair used
\* takes that order out of its heap and out of the index, adds no trade and
\* leaves every other resting order, every remaining, seq and every other book
\* as they were; the order is in no later trade; a CREATE followed by the DELETE
\* of its id leaves an empty book.
C11_DeleteResting ==
  /\ [][(deleteRestingStep => deleteRestingFrame) /\ goneStaysGone]_vars
  /\ []createThenDeleteEmpty

C11_Witness ==
  /\ Len(stream) = 3
  /\ lastCmd.type_op = "DELETE"
  /\ stream[1].type_op = "CREATE"
  /\ stream[2].type_op = "CREATE"
  /\ \E k \in 1..Len(books) :
       /\ books[k].pair = lastCmd.pair
       /\ Cardinality(refsWithId(books[k], lastCmd.order_id)) = 1
       /\ \A ref \in refsWithId(books[k], lastCmd.order_id) :
            /\ ~isResting(books[k], ref)
            /\ gt(Obj(books[k].objs, ref).remaining, Zero)
       /\ restingRefs(books[k]) # {}

\* the step ingests a DELETE naming an id whose orders on the pair are all gone:
\* filled, cancelled or never rested
deleteGoneStep ==
  /\ ingested
  /\ cmd.type_op = "DELETE"
  /\ bookIndex(books, cmd.pair) # 0
  /\ LET book == books[bookIndex(books, cmd.pair)]
     IN  /\ refsWithId(book, cmd.order_id) # {}
         /\ refsWithId(book, cmd.order_id) \cap restingRefs(book) = {}

\* the step ingests a DELETE right after a DELETE of the same pair and id
deleteAgainStep ==
  /\ ingested
  /\ Len(stream) > 0
  /\ cmd.type_op = "DELETE"
  /\ lastCmd.type_op = "DELETE"
  /\ lastCmd.pair = cmd.pair
  /\ lastCmd.order_id = cmd.order_id

\* C12: a DELETE naming an order that is no longer resting (filled as taker or
\* maker, or cancelled before) adds no trade and leaves bids, asks, the index,
\* seq and trades of every book as they were; so does a DELETE that repeats the
\* DELETE before it.
C12_DeleteGone ==
  [][(deleteGoneStep \/ deleteAgainStep) => (books' = books /\ phase' = phase)]_vars

C12_Witness ==
  /\ Len(stream) = 3
  /\ lastCmd.type_op = "DELETE"
  /\ \E k \in 1..Len(books) :
       /\ books[k].pair = lastCmd.pair
       /\ \E ref \in refsWithId(books[k], lastCmd.order_id) :
            /\ IsZero(Obj(books[k].objs, ref).remaining)
            /\ \E n \in 1..Len(books[k].fills) : books[k].fills[n].maker = ref
       /\ refsWithId(books[k], lastCmd.order_id) \cap restingRefs(books[k]) = {}
       /\ restingRefs(books[k]) # {}

\* the trades the command at position p of stream generated, in the order match
\* appended them: those of its pair's book whose taker is the order it created
tradesOfCmd(p) ==
  IF ~createsIn(stream[p], stream[p].pair) THEN << >>
  ELSE LET book == books[bookIndex(books, stream[p].pair)]
           ts == Cardinality({i \in 1..(p - 1) : createsIn(stream[i], stream[p].pair)})
           made == SelectSeq([n \in 1..Len(book.fills) |-> n],
                             LAMBDA n : book.fills[n].taker = ts)
       IN  [i \in 1..Len(made) |-> book.trades[made[i]]]

\* every trade of the run so far in the order it was generated
RECURSIVE generatedUpTo(_)
generatedUpTo(p) ==
  IF p = 0 THEN << >> ELSE generatedUpTo(p - 1) \o tradesOfCmd(p)

generated == generatedUpTo(Len(stream))

tradesOfPair(ts, pair) == SelectSeq(ts, LAMBDA t : t.pair = pair)

\* C13 as claimed: finish() returns the trades in the order they were generated,
\* whatever pairs the stream alternates between.
C13_GenerationOrderAsClaimed ==
  phase = "done" => result[1].trades = generated

\* C13: finish() returns every trade once; the trades of one pair are in the
\* order they were generated, and when all trades are of one pair the whole
\* sequence is.
C13_GenerationOrder ==
  phase = "done" =>
    /\ Len(result[1].trades) = Len(generated)
    /\ \A k \in 1..Len(books) :
         tradesOfPair(result[1].trades, books[k].pair) = tradesOfPair(generated, books[k].pair)
    /\ (\A i, j \in 1..Len(generated) : generated[i].pair = generated[j].pair)
         => result[1].trades = generated

C13_Witness ==
  /\ phase = "done"
  /\ \E i, j \in 1..Len(result[1].trades) :
       /\ i < j
       /\ result[1].trades[i].pair # result[1].trades[j].pair
  /\ result[1].trades # generated

\* the distinct pairs of the first n commands of stream, by first reference
RECURSIVE firstReferences(_)
firstReferences(n) ==
  IF n = 0 THEN << >>
  ELSE LET before == firstReferences(n - 1)
       IN  IF \E i \in 1..Len(before) : before[i] = stream[n].pair
           THEN before
           ELSE Append(before, stream[n].pair)

\* the generated trades grouped by pair, the pairs in the order given
RECURSIVE groupedByPair(_)
groupedByPair(pairs) ==
  IF pairs = << >> THEN << >>
  ELSE tradesOfPair(generated, pairs[1]) \o groupedByPair(Tail(pairs))

\* C14: finish() returns one snapshot for each distinct pair a command named, in
\* the order the pairs were first named, and as trades each pair's trades, in
\* the order they were generated, pair after pair in that same order; with no
\* command it returns no snapshot and no trade.
C14_FinishAggregation ==
  phase = "done" =>
    LET pairs == firstReferences(Len(stream))
    IN  /\ [k \in 1..Len(result[1].orderbooks) |-> result[1].orderbooks[k].pair] = pairs
        /\ result[1].trades = groupedByPair(pairs)
        /\ trades = result[1].trades
        /\ stream = << >> => (result[1].orderbooks = << >> /\ result[1].trades = << >>)

C14_Witness ==
  /\ phase = "done"
  /\ Len(result[1].orderbooks) = 2
  /\ \A k \in 1..2 : tradesOfPair(result[1].trades, result[1].orderbooks[k].pair) # << >>

\* C15 as claimed: once a command carries a limit_price or an amount that is no
\* decimal the run has failed, and nothing is returned or written.
C15_InvalidDecimalFailsAsClaimed ==
  (\E j \in 1..Len(stream) : ~validDecimals(stream[j]))
    => (phase = "failed" /\ result = << >> /\ files = << >>)

\* C15: once a CREATE carries a limit_price or an amount that is no decimal the
\* run has failed, however many commands came before it: nothing is returned or
\* written then or later, and no command after it is ingested.
C15_InvalidDecimalFails ==
  /\ []((\E j \in 1..Len(stream) : stream[j].type_op = "CREATE" /\ ~validDecimals(stream[j]))
          => (phase = "failed" /\ result = << >> /\ files = << >> /\ trades = << >>))
  /\ [][phase # "failed"]_vars

C15_Witness ==
  /\ phase = "failed"
  /\ Len(stream) = 3
  /\ ~validDecimals(stream[3])
  /\ \E k \in 1..Len(books) : books[k].trades # << >>

\* the step ingests a CREATE that parses
createStep == ingested /\ createsIn(cmd, cmd.pair)

\* the books but for the account of every order and the clock of every trade
blindToAccount(bs) ==
  [k \in 1..Len(bs) |->
     [bs[k] EXCEPT
        !.objs = [i \in 1..Len(bs[k].objs) |-> [bs[k].objs[i] EXCEPT !.account = ""]],
        !.trades = [n \in 1..Len(bs[k].trades) |-> withoutTs(bs[k].trades[n])]]]

\* the top of the heap the command would consume, or no order
facing(bs, raw) ==
  LET k == bookIndex(bs, raw.pair)
      arr == IF k = 0 THEN << >>
             ELSE IF raw.side = "BUY" THEN bs[k].asks ELSE bs[k].bids
  IN  IF arr = << >> THEN << >> ELSE <<Obj(bs[k].objs, arr[1])>>

\* the top of that heap is an order of the command's own account at a price the
\* command's limit reaches, and the command asks for a positive amount
selfCrossStep ==
  /\ createStep
  /\ gt(Big(cmd.amount), Zero)
  /\ facing(books, cmd) # << >>
  /\ facing(books, cmd)[1].account = cmd.account_id
  /\ IF cmd.side = "BUY"
     THEN gte(Big(cmd.limit_price), facing(books, cmd)[1].price)
     ELSE lte(Big(cmd.limit_price), facing(books, cmd)[1].price)

\* C16: a CREATE leaves the books as the same CREATE under any other account
\* would, accounts aside: the same trades at the same prices and amounts, the
\* same orders resting with the same remaining; and a CREATE that crosses the
\* best order of its own account trades with it.
C16_AccountBlind ==
  [][/\ createStep =>
          \A acc \in Accounts :
            blindToAccount(books') \in
              {blindToAccount(bs) : bs \in ingest(books, [cmd EXCEPT !.account_id = acc])}
     /\ selfCrossStep =>
          LET k == bookIndex(books, cmd.pair)
          IN  /\ Len(books'[k].trades) > Len(books[k].trades)
              /\ books'[k].fills[Len(books[k].fills) + 1].maker
                   = (IF cmd.side = "BUY" THEN books[k].asks[1] ELSE books[k].bids[1])]_vars

C16_Witness ==
  \E k \in 1..Len(books) : \E m, n \in 1..Len(books[k].fills) :
    LET fm == books[k].fills[m]
        fn == books[k].fills[n]
    IN  /\ fm.maker = fn.maker
        /\ Obj(books[k].objs, fm.taker).account = Obj(books[k].objs, fm.maker).account
        /\ Obj(books[k].objs, fn.taker).account # Obj(books[k].objs, fn.maker).account

\* the book of pair as ingest finds or makes it
bookBefore(bs, pair) ==
  IF bookIndex(bs, pair) = 0 THEN newOrderBook(pair) ELSE bs[bookIndex(bs, pair)]

\* the limit of raw reaches the price of the top of the heap it would consume
crosses(bs, raw) ==
  /\ facing(bs, raw) # << >>
  /\ IF raw.side = "BUY"
     THEN gte(Big(raw.limit_price), facing(bs, raw)[1].price)
     ELSE lte(Big(raw.limit_price), facing(bs, raw)[1].price)

\* C17: a CREATE of a positive amount adds a trade exactly when the opposite
\* side is not empty and its best price is reached by the limit, equality
\* included (limit >= best ask for a BUY, limit <= best bid for a SELL).  After
\* it the new order has remaining 0 and does not rest, or the opposite side is
\* empty or its best is out of reach and the order rests with what was not filled.
C17_CrossingRule ==
  [][(createStep /\ gt(Big(cmd.amount), Zero)) =>
       LET before == bookBefore(books, cmd.pair)
           after == books'[bookIndex(books', cmd.pair)]
           inc == before.seq
           left == Obj(after.objs, inc).remaining
       IN  /\ (Len(after.trades) > Len(before.trades)) <=> crosses(books, cmd)
           /\ \/ IsZero(left) /\ ~isResting(after, inc)
              \/ /\ ~crosses(books', cmd)
                 /\ isResting(after, inc)
                 /\ gt(left, Zero)
                 /\ plus(tradedSum(after, inc, Len(after.trades)), left) = Big(cmd.amount)]_vars

C17_Witness ==
  /\ Len(stream) > 1
  /\ createsIn(lastCmd, lastCmd.pair)
  /\ \E k \in 1..Len(books) :
       LET book == books[k]
           inc == book.seq - 1
       IN  /\ book.pair = lastCmd.pair
           /\ book.seq > 0
           /\ isResting(book, inc)
           /\ \E n \in 1..Len(book.fills) :
                /\ book.fills[n].taker = inc
                /\ eq(limitPrice(book.pair, book.fills[n].maker), Big(lastCmd.limit_price))

\* the smaller of two quantities
smaller(x, y) == IF lte(x, y) THEN x ELSE y

\* what an order had left before the n-th trade of its book
leftBefore(book, ref, n) ==
  minus(initialAmount(book.pair, ref), tradedSum(book, ref, n - 1))

\* every trade is of the smaller of what its two orders had left, is positive
\* and leaves one of the two with nothing
tradeIsOfTheSmaller ==
  \A k \in 1..Len(books) : \A n \in 1..Len(books[k].trades) :
    LET book == books[k]
        f == book.fills[n]
        amount == Big(book.trades[n].amount)
    IN  /\ f.takerLeft = leftBefore(book, f.taker, n)
        /\ f.makerLeft = leftBefore(book, f.maker, n)
        /\ eq(amount, smaller(f.takerLeft, f.makerLeft))
        /\ gt(amount, Zero)
        /\ IsZero(minus(f.takerLeft, amount)) \/ IsZero(minus(f.makerLeft, amount))

\* a maker the step's trade exhausts has left its heap and the index when the
\* step ends; a maker with something left is resting then, with that much
makerLeavesWhenEmpty ==
  \A k \in 1..Len(books') :
    LET after == books'[k]
        had == IF k <= Len(books) THEN Len(books[k].fills) ELSE 0
    IN  \A n \in (had + 1)..Len(after.fills) :
          LET f == after.fills[n]
          IN  IF eq(f.makerLeft, f.qty)
              THEN /\ heapCount(after, f.maker) = 0
                   /\ \A id \in DOMAIN after.idIndex : after.idIndex[id] # f.maker
                   /\ IsZero(Obj(after.objs, f.maker).remaining)
              ELSE /\ heapCount(after, f.maker) = 1
                   /\ Obj(after.objs, f.maker).remaining = minus(f.makerLeft, f.qty)
                   /\ gt(Obj(after.objs, f.maker).remaining, Zero)

\* C18: the amount of every trade is the smaller of what the incoming and the
\* best order had left just before it, and is positive; after it one of the two
\* has nothing left.  A maker left with nothing is out of its heap and of the
\* index by the end of the step, a maker with something left stays resting.
C18_TradeQuantity ==
  /\ []tradeIsOfTheSmaller
  /\ [][makerLeavesWhenEmpty]_vars

C18_Witness ==
  \E k \in 1..Len(books) : \E m, n \in 1..Len(books[k].fills) :
    LET book == books[k]
        fm == book.fills[m]
        fn == book.fills[n]
    IN  /\ fm.taker = fn.taker
        /\ eq(fm.makerLeft, fm.qty) /\ ~isResting(book, fm.maker)
        /\ gt(fn.makerLeft, fn.qty) /\ isResting(book, fn.maker)

\* order a goes before order b of the same side: a better price (higher for a
\* bid, lower for an ask), or the same price and an earlier ts
goesBefore(a, b) ==
  \/ IF a.side = "BUY" THEN gt(a.price, b.price) ELSE lt(a.price, b.price)
  \/ eq(a.price, b.price) /\ a.ts < b.ts

\* the maker of every trade goes before every other order resting on its side
\* when the trade is made
makerIsBest ==
  \A k \in 1..Len(books) : \A n \in 1..Len(books[k].fills) :
    LET book == books[k]
        f == book.fills[n]
    IN  /\ \E i \in 1..Len(f.resting) : f.resting[i] = f.maker
        /\ \A i \in 1..Len(f.resting) :
             f.resting[i] # f.maker =>
               goesBefore(Obj(book.objs, f.maker), Obj(book.objs, f.resting[i]))

\* the trades of one taker go from the best price of the consumed side to worse ones
levelsInOrder ==
  \A k \in 1..Len(books) : \A m, n \in 1..Len(books[k].fills) :
    (m < n /\ books[k].fills[m].taker = books[k].fills[n].taker) =>
      IF Obj(books[k].objs, books[k].fills[m].taker).side = "SELL"
      THEN gte(Big(books[k].trades[m].price), Big(books[k].trades[n].price))
      ELSE lte(Big(books[k].trades[m].price), Big(books[k].trades[n].price))

\* C19: the maker of every trade is the best order of the opposite side at that
\* moment: the highest bid or the lowest ask, the smallest ts among equal
\* prices, so no order trades while a better-priced one rests on its side; the
\* maker prices of one match loop do not rise for a SELL taker and do not fall
\* for a BUY taker.
C19_PricePriority == makerIsBest /\ levelsInOrder

C19_Witness ==
  \E k \in 1..Len(books) : \E m, n \in 1..Len(books[k].fills) :
    /\ m < n
    /\ books[k].fills[m].taker = books[k].fills[n].taker
    /\ ~eq(Big(books[k].trades[m].price), Big(books[k].trades[n].price))
    /\ Len(books[k].fills[m].resting) > 2

\* the step leaves the book of every pair but the command's as it was
otherBooksUntouched ==
  ingested =>
    /\ Len(books') >= Len(books)
    /\ \A k \in 1..Len(books) :
         /\ books'[k].pair = books[k].pair
         /\ books[k].pair # cmd.pair => books'[k] = books[k]

\* a book holds orders and trades of its own pair only, one book for each pair
ownPairOnly ==
  \A k \in 1..Len(books) :
    /\ \A j \in 1..Len(books) : books[j].pair = books[k].pair => j = k
    /\ \A ref \in refsOf(books[k]) : Obj(books[k].objs, ref).pair = books[k].pair
    /\ \A n \in 1..Len(books[k].trades) :
         /\ books[k].trades[n].pair = books[k].pair
         /\ Obj(books[k].objs, books[k].fills[n].maker).pair = books[k].pair
         /\ Obj(books[k].objs, books[k].fills[n].taker).pair = books[k].pair

\* C20: a command for one pair leaves bids, asks, index, seq and trades of the
\* book of every other pair as they were, an order of the same id there
\* included; the two orders of every trade are of the trade's pair.
C20_PairIsolation ==
  /\ [][otherBooksUntouched]_vars
  /\ []ownPairOnly

C20_Witness ==
  /\ Len(stream) = 4
  /\ lastCmd.type_op = "DELETE"
  /\ Len(books) = 2
  /\ \E k, q \in 1..2 :
       /\ books[k].pair = lastCmd.pair
       /\ books[q].pair # lastCmd.pair
       /\ restingRefs(books[k]) = {}
       /\ books[k].trades = << >>
       /\ books[k].objs # << >>
       /\ \E ref \in restingRefs(books[q]) : Obj(books[q].objs, ref).id = lastCmd.order_id
       /\ books[q].trades # << >>

\* the sum of the quantities of the trades of book after its first n that have
\* ref as maker
RECURSIVE madeSince(_, _, _)
madeSince(book, ref, n) ==
  IF Len(book.fills) <= n THEN Zero
  ELSE LET last == book.fills[Len(book.fills)]
           rest == madeSince([book EXCEPT !.fills = SubSeq(@, 1, Len(@) - 1)], ref, n)
       IN  IF last.maker = ref THEN plus(rest, Big(book.trades[Len(book.fills)].amount))
           ELSE rest

\* across the step every order resting before it keeps price, side, id, account,
\* pair and ts, and its remaining goes down by the trades the step made with it
\* as maker and by nothing else
restingChangeByMatchOnly ==
  \A k \in 1..Len(books) : \A ref \in restingRefs(books[k]) :
    LET before == Obj(books[k].objs, ref)
        after == Obj(books'[k].objs, ref)
        had == Len(books[k].fills)
    IN  /\ [after EXCEPT !.remaining = before.remaining] = before
        /\ lte(after.remaining, before.remaining)
        /\ before.remaining = plus(after.remaining, madeSince(books'[k], ref, had))
        /\ lt(after.remaining, before.remaining) =>
             \E n \in (had + 1)..Len(books'[k].fills) :
               /\ books'[k].fills[n].maker = ref
               /\ (IF before.side = "BUY" THEN books'[k].trades[n].buyOrderId
                   ELSE books'[k].trades[n].sellOrderId) = before.id
        /\ Len(books'[k].trades) = Len(books[k].trades) => after.remaining = before.remaining

\* C21: across one command every resting order keeps its price, side, id and ts;
\* its remaining never grows, and goes down only by the amounts of the trades
\* the command appended with that order as maker; a command that adds no trade
\* changes no resting order's remaining.
C21_RestingChangeByMatchOnly ==
  [][ingested => restingChangeByMatchOnly]_vars

C21_Witness ==
  /\ Len(stream) = 3
  /\ createsIn(lastCmd, lastCmd.pair)
  /\ \E k \in 1..Len(books) :
       LET book == books[k]
       IN  /\ book.pair = lastCmd.pair
           /\ \E n \in 1..Len(book.fills) :
                /\ book.fills[n].taker = book.seq - 1
                /\ gt(book.fills[n].makerLeft, book.fills[n].qty)
                /\ isResting(book, book.fills[n].maker)
           /\ Cardinality(restingRefs(book)) = 2

\* the orders of the command's book resting before the step under the command's id
liveUnderId ==
  refsWithId(bookBefore(books, cmd.pair), cmd.order_id)
    \cap restingRefs(bookBefore(books, cmd.pair))

\* a CREATE with something left after matching comes to rest beside a resting
\* order of its id: both are in the heaps and the index holds the new one
duplicateRests ==
  createStep =>
    LET before == bookBefore(books, cmd.pair)
        after == books'[bookIndex(books', cmd.pair)]
        inc == before.seq
    IN  \A old \in liveUnderId :
          (isResting(after, old) /\ gt(Obj(after.objs, inc).remaining, Zero)) =>
            /\ heapCount(after, old) = 1
            /\ heapCount(after, inc) = 1
            /\ mapHas(after.idIndex, cmd.order_id)
            /\ after.idIndex[cmd.order_id] = inc

\* a DELETE of an id two resting orders share takes the one the index holds, the
\* newest, and leaves the others resting and the id out of the index
duplicateDelete ==
  (ingested /\ cmd.type_op = "DELETE" /\ Cardinality(liveUnderId) > 1
     /\ mapHas(bookBefore(books, cmd.pair).idIndex, cmd.order_id)) =>
    LET before == bookBefore(books, cmd.pair)
        after == books'[bookIndex(books', cmd.pair)]
        newer == before.idIndex[cmd.order_id]
    IN  /\ newer \in liveUnderId
        /\ \A old \in liveUnderId : old <= newer
        /\ restingRefs(after) = restingRefs(before) \ {newer}
        /\ \A old \in liveUnderId \ {newer} : heapCount(after, old) = 1
        /\ after.objs = before.objs
        /\ after.trades = before.trades
        /\ ~mapHas(after.idIndex, cmd.order_id)

\* a DELETE of an id that rests but is not in the index does nothing
orphanDelete ==
  (ingested /\ cmd.type_op = "DELETE" /\ liveUnderId # {}
     /\ ~mapHas(bookBefore(books, cmd.pair).idIndex, cmd.order_id)) =>
    books' = books

\* when a trade of the step exhausts one of two resting orders of one id, the
\* index no longer holds that id for either, the other resting on or not
duplicateFilled ==
  \A k \in 1..Len(books) : \A a, b \in restingRefs(books[k]) :
    LET id == Obj(books[k].objs, a).id
        after == books'[k]
    IN  (/\ a # b
         /\ Obj(books[k].objs, b).id = id
         /\ \E n \in (Len(books[k].fills) + 1)..Len(after.fills) : after.fills[n].maker = a
         /\ IsZero(Obj(after.objs, a).remaining))
        => ~(mapHas(after.idIndex, id) /\ after.idIndex[id] \in {a, b})

\* C22: a CREATE that rests under an id already resting in its book leaves both
\* orders in the heaps with the index on the newer; a DELETE of that id then
\* removes the newer only, and a further DELETE does nothing to the older; once
\* one of the two is filled in full as maker the index has lost the id although
\* the other may still rest.
C22_DuplicateLiveId ==
  [][duplicateRests /\ duplicateDelete /\ orphanDelete /\ duplicateFilled]_vars

C22_Witness ==
  \E k \in 1..Len(books) : \E m, n \in 1..Len(books[k].fills) :
    LET book == books[k]
        a == book.fills[m].maker
        b == book.fills[n].maker
    IN  /\ a # b
        /\ Obj(book.objs, a).id = Obj(book.objs, b).id
        /\ book.fills[m].taker = book.fills[n].taker
        /\ ~isResting(book, a)
        /\ isResting(book, b)
        /\ ~mapHas(book.idIndex, Obj(book.objs, b).id)
        /\ lastCmd.type_op = "DELETE"
        /\ lastCmd.order_id = Obj(book.objs, b).id

\* the command with every side, account, amount and limit_price in place of its own
otherFields(raw) ==
  {[raw EXCEPT !.side = sd, !.account_id = acc, !.amount = a, !.limit_price = p] :
     sd \in Sides, acc \in Accounts,
     a \in {<<"0">>, <<"2", ".", "5", "0">>, <<"1", "x">>},
     p \in {<<"0">>, <<"9">>, <<"x">>}}

\* C23: a DELETE takes the resting order of its pair's book that has its
\* order_id out of the heap of the side that order rests on, whatever the side,
\* account_id, limit_price and amount of the DELETE, and seq does not move.
C23_DeleteKeyedOnPairAndId ==
  [][(ingested /\ cmd.type_op = "DELETE") =>
       LET before == bookBefore(books, cmd.pair)
           after == books'[bookIndex(books', cmd.pair)]
       IN  /\ phase' = phase
           /\ \A other \in otherFields(cmd) :
                ~processThrows(other) /\ ingest(books, other) = {books'}
           /\ after.seq = before.seq
           /\ liveUnderId # {} =>
                \E found \in liveUnderId :
                  /\ heapCount(after, found) = 0
                  /\ restingRefs(after) = restingRefs(before) \ {found}
                  /\ IF Obj(before.objs, found).side = "BUY"
                     THEN after.asks = before.asks
                     ELSE after.bids = before.bids]_vars

\* C24: a CREATE is processed to its end and appends at most as many trades as
\* orders rested on the opposite side when it came; every trade of it but the
\* last exhausts its maker, which leaves the heap; the orders resting in the
\* book grow by at most one.
C24_MatchLoopBounded ==
  [][createStep =>
       LET before == bookBefore(books, cmd.pair)
           after == books'[bookIndex(books', cmd.pair)]
           had == Len(before.fills)
           opposite == IF cmd.side = "BUY" THEN before.asks ELSE before.bids
       IN  /\ phase' = phase
           /\ Len(after.trades) - Len(before.trades) <= Len(opposite)
           /\ Len(after.fills) = Len(after.trades)
           /\ \A n \in (had + 1)..(Len(after.fills) - 1) :
                /\ eq(after.fills[n].makerLeft, after.fills[n].qty)
                /\ heapCount(after, after.fills[n].maker) = 0
                /\ Len(after.fills[n + 1].resting) = Len(after.fills[n].resting) - 1
           /\ Cardinality(restingRefs(after)) <= Cardinality(restingRefs(before)) + 1]_vars

C24_Witness ==
  /\ Len(stream) = MaxDeepCmds
  /\ createsIn(lastCmd, lastCmd.pair)
  /\ \E k \in 1..Len(books) :
       LET book == books[k]
           n == Len(book.fills)
       IN  /\ book.pair = lastCmd.pair
           /\ n = 3
           /\ \A i \in 1..3 : book.fills[i].taker = book.seq - 1
           /\ Len(book.fills[1].resting) = 3
           /\ isResting(book, book.fills[3].maker)

====
